---- MODULE Spec2Model ----
(***************************************************************************)
(* BatteryGuardian: battery_daemon.py.                                     *)
(*                                                                         *)
(* The model follows one daemon process at a time: main() starts it in one *)
(* of its modes, daemon_loop() polls, one_iteration() reads the batteries, *)
(* decides, dispatches the three notification channels and persists the    *)
(* notification state in the state file.  The state file, its temporary    *)
(* sibling and the pidfile outlive the process.                            *)
(*                                                                         *)
(* Abstractions, stated once:                                              *)
(*  - a Python string is a sequence of tokens: a word ("notified_high") or *)
(*    a whitespace character (" ", "\n"); str.strip() is computed on it;   *)
(*  - an optional number is None (-1) or a non-negative integer; float     *)
(*    arithmetic is exact rational arithmetic;                             *)
(*  - an operating-system call that can fail is a nondeterministic choice  *)
(*    between its success and its exception.                               *)
(***************************************************************************)
EXTENDS Integers, Sequences, FiniteSets, TLC

\* ------------------------------------------------------------------ bounds
\* Longest list of battery devices one poll of the daemon loop enumerates.
MaxPollDevices == 1
\* POLL_INTERVAL of the run, in one-second sleep ticks.
PollTicks == 2
\* Processes started one after the other on the same state directory.
MaxLaunches == 2
\* Longest list of battery devices battery_info is applied to on its own.
MaxAggDevices == 2

\* --------------------------------------------------------- strings, files
None == -1

Whitespace == {" ", "\n"}

RECURSIVE lstrip(_)
lstrip(s) == IF s # <<>> /\ Head(s) \in Whitespace THEN lstrip(Tail(s)) ELSE s

RECURSIVE rstrip(_)
rstrip(s) ==
  IF s # <<>> /\ s[Len(s)] \in Whitespace THEN rstrip(SubSeq(s, 1, Len(s) - 1)) ELSE s

\* str.strip()
strip(s) == rstrip(lstrip(s))

\* A path of the file system: missing, present but failing to open or decode,
\* or present with a text.
Absent == [exists |-> FALSE, readable |-> FALSE, text |-> <<>>]
Unreadable == [exists |-> TRUE, readable |-> FALSE, text |-> <<>>]
TextFile(t) == [exists |-> TRUE, readable |-> TRUE, text |-> t]

NOTIFIED_HIGH == <<"notified_high">>
NOTIFIED_LOW == <<"notified_low">>
NONE_STATE == <<"none">>

\* What the state file may hold when a run starts: the daemon's own values,
\* the same with surrounding whitespace, an empty file, foreign content.
StartFiles ==
  { Absent, Unreadable,
    TextFile(NOTIFIED_HIGH), TextFile(NOTIFIED_LOW),
    TextFile(<<"notified_high", "\n">>), TextFile(<<>>),
    TextFile(<<"junk">>), TextFile(NONE_STATE) }

\* read_state: the stripped text, "none" on any exception.
read_state(f) == IF f.exists /\ f.readable THEN strip(f.text) ELSE NONE_STATE

\* ------------------------------------------------------------- batteries
NoStatus == ""

Device(en, cn, ef, cf, cap, st) ==
  [energy_now |-> en, charge_now |-> cn, energy_full |-> ef, charge_full |-> cf,
   capacity |-> cap, status |-> st]

\* str.lower() on the status words the model feeds.
lower(s) ==
  CASE s \in {"Charging", "CHARGING", "charging"} -> "charging"
    [] s \in {"Discharging", "discharging"} -> "discharging"
    [] s \in {"Full", "FULL", "full"} -> "full"
    [] s = "Not charging" -> "not charging"
    [] OTHER -> s

\* Python's `a or b` on two optional floats: b when a is None or 0.0.
FloatOr(a, b) == IF a # None /\ a # 0 THEN a ELSE b

\* round(): nearest integer, ties to even, of n/d with n >= 0, d > 0.
RoundHalfEven(n, d) ==
  LET q == n \div d
      r == n % d
  IN  IF 2 * r < d THEN q
      ELSE IF 2 * r > d THEN q + 1
      ELSE IF q % 2 = 0 THEN q ELSE q + 1

\* Lines 135-169: one device's share of total_energy (times 1, as a numerator)
\* and of total_capacity_weight.  pct * energy_full = 100 * energy_now.
DeviceShare(d) ==
  LET energy_now == FloatOr(d.energy_now, d.charge_now)
      energy_full == FloatOr(d.energy_full, d.charge_full)
  IN  IF energy_now # None /\ energy_full # None /\ energy_full # 0
        THEN [energy |-> 100 * energy_now, weight |-> energy_full]
      ELSE IF d.capacity # None
        THEN [energy |-> d.capacity, weight |-> 1]
      ELSE [energy |-> 0, weight |-> 1]

RECURSIVE TotalEnergy(_)
TotalEnergy(ds) ==
  IF ds = <<>> THEN 0 ELSE DeviceShare(Head(ds)).energy + TotalEnergy(Tail(ds))

RECURSIVE TotalWeight(_)
TotalWeight(ds) ==
  IF ds = <<>> THEN 0 ELSE DeviceShare(Head(ds)).weight + TotalWeight(Tail(ds))

\* The capacities list of line 163: the capacity of each device that took the
\* capacity fallback, in order.
RECURSIVE Capacities(_)
Capacities(ds) ==
  IF ds = <<>> THEN <<>>
  ELSE LET d == Head(ds)
           energy_now == FloatOr(d.energy_now, d.charge_now)
           energy_full == FloatOr(d.energy_full, d.charge_full)
           weighted == energy_now # None /\ energy_full # None /\ energy_full # 0
       IN  IF ~weighted /\ d.capacity # None
             THEN <<d.capacity>> \o Capacities(Tail(ds))
           ELSE Capacities(Tail(ds))

\* Lines 171-175.
OverallPct(ds) ==
  IF TotalWeight(ds) > 0 THEN RoundHalfEven(TotalEnergy(ds), TotalWeight(ds))
  ELSE IF Capacities(ds) # <<>> THEN Capacities(ds)[1] ELSE 0

\* The statuses list of lines 151-152: every non-empty status, in order.
RECURSIVE Statuses(_)
Statuses(ds) ==
  IF ds = <<>> THEN <<>>
  ELSE IF Head(ds).status # NoStatus
    THEN <<Head(ds).status>> \o Statuses(Tail(ds))
  ELSE Statuses(Tail(ds))

AnyStatus(ss, word) == \E i \in 1..Len(ss) : lower(ss[i]) = word

\* The priority with its first two tests exchanged.
OverallStatusDischargingFirst(ds) ==
  LET ss == Statuses(ds)
  IN  IF AnyStatus(ss, "discharging") THEN "Discharging"
      ELSE IF AnyStatus(ss, "charging") THEN "Charging"
      ELSE IF AnyStatus(ss, "full") THEN "Full"
      ELSE IF ss # <<>> THEN ss[1] ELSE "Unknown"

\* Lines 177-187.
OverallStatus(ds) ==
  LET ss == Statuses(ds)
  IN  IF AnyStatus(ss, "charging") THEN "Charging"
      ELSE IF AnyStatus(ss, "discharging") THEN "Discharging"
      ELSE IF AnyStatus(ss, "full") THEN "Full"
      ELSE IF ss # <<>> THEN ss[1] ELSE "Unknown"

\* battery_info without the check for an empty device list.
battery_info_unchecked(ds) ==
  [raised |-> FALSE, pct |-> OverallPct(ds), status |-> OverallStatus(ds)]

\* battery_info: raises RuntimeError when no device is found.
battery_info(ds) ==
  IF ds = <<>> THEN [raised |-> TRUE, pct |-> 0, status |-> "Unknown"]
  ELSE [raised |-> FALSE, pct |-> OverallPct(ds), status |-> OverallStatus(ds)]

\* battery_info has not returned yet.
NoResult == [raised |-> FALSE, pct |-> None, status |-> NoStatus]

\* The device directories battery_info is applied to on its own.  By their
\* measurement files (no status file): energy files, energy_now above
\* energy_full, energy_now holding 0 with and without a capacity file,
\* charge files only, energy_full holding 0, capacity only, no file at all.
MeasuredDevices ==
  { Device(50, None, 100, None, None, NoStatus),
    Device(30, None, 50, None, None, NoStatus),
    Device(120, None, 100, None, None, NoStatus),
    Device(0, None, 100, None, 50, NoStatus),
    Device(0, None, 100, None, None, NoStatus),
    Device(None, 40, None, 80, None, NoStatus),
    Device(50, None, 0, None, 20, NoStatus),
    Device(None, None, None, None, 85, NoStatus),
    Device(None, None, None, None, None, NoStatus) }

\* By their status file, beside a capacity file: the kernel's words, other
\* spellings of them, and "Not charging".
StatusWords ==
  {"Charging", "CHARGING", "charging", "Discharging", "discharging", "Full",
   "Not charging"}
StatusDevices == { Device(None, None, None, None, 50, w) : w \in StatusWords }

AggDevices == MeasuredDevices \cup StatusDevices
AggInputs == UNION { [1..n -> AggDevices] : n \in 0..MaxAggDevices }

\* ---------------------------------------------------------- notifications
Channels == {"popup", "sound", "telegram"}

\* notify_send: True once subprocess.run returned, False on any exception.
SendOutcomes == {"ran", "FileNotFoundError", "Exception"}
notify_send(o) == o = "ran"

\* notify_sound: the first player whose subprocess.run returns wins; when
\* all three raise, the terminal bell; False only when the bell raises too.
Players == <<"paplay", "canberra-gtk-play", "aplay">>
SoundOutcomes == [{"paplay", "canberra-gtk-play", "aplay", "bell"} -> BOOLEAN]
notify_sound(o) == (\E i \in 1..Len(Players) : o[Players[i]]) \/ o["bell"]

\* notify_telegram: False without credentials; else the "ok" field of the
\* JSON answer, True for an answer that is no JSON, False on any exception.
TelegramOutcomes == {"ok_true", "ok_false", "not_json", "Exception"}
notify_telegram(token, chat, o) ==
  IF token = "" \/ chat = "" THEN FALSE ELSE o \in {"ok_true", "not_json"}

\* ------------------------------------------------------ the decision table
\* Variants of the decision table, each with one slip in it.
\* The high threshold compared with > instead of >=.
DecisionStrictHigh(p, st, lo, hi, cur) ==
  IF st = "Charging" /\ p > hi
    THEN IF cur # NOTIFIED_HIGH
           THEN [request |-> "high", todo |-> "notify", value |-> NOTIFIED_HIGH]
         ELSE [request |-> "none", todo |-> "return", value |-> <<>>]
  ELSE IF st = "Discharging" /\ p <= lo
    THEN IF cur # NOTIFIED_LOW
           THEN [request |-> "low", todo |-> "notify", value |-> NOTIFIED_LOW]
         ELSE [request |-> "none", todo |-> "return", value |-> <<>>]
  ELSE IF lo < p /\ p < hi /\ cur # NONE_STATE
    THEN [request |-> "none", todo |-> "clear", value |-> <<>>]
  ELSE [request |-> "none", todo |-> "return", value |-> <<>>]

\* The persisted state not consulted before notifying.
DecisionAlwaysNotify(p, st, lo, hi, cur) ==
  IF st = "Charging" /\ p >= hi
    THEN [request |-> "high", todo |-> "notify", value |-> NOTIFIED_HIGH]
  ELSE IF st = "Discharging" /\ p <= lo
    THEN [request |-> "low", todo |-> "notify", value |-> NOTIFIED_LOW]
  ELSE IF lo < p /\ p < hi /\ cur # NONE_STATE
    THEN [request |-> "none", todo |-> "clear", value |-> <<>>]
  ELSE [request |-> "none", todo |-> "return", value |-> <<>>]

\* The neutral band not clearing the state.
DecisionNoClear(p, st, lo, hi, cur) ==
  IF st = "Charging" /\ p >= hi
    THEN IF cur # NOTIFIED_HIGH
           THEN [request |-> "high", todo |-> "notify", value |-> NOTIFIED_HIGH]
         ELSE [request |-> "none", todo |-> "return", value |-> <<>>]
  ELSE IF st = "Discharging" /\ p <= lo
    THEN IF cur # NOTIFIED_LOW
           THEN [request |-> "low", todo |-> "notify", value |-> NOTIFIED_LOW]
         ELSE [request |-> "none", todo |-> "return", value |-> <<>>]
  ELSE [request |-> "none", todo |-> "return", value |-> <<>>]

\* The neutral band taken as the closed interval [LOW, HIGH].
DecisionClosedBand(p, st, lo, hi, cur) ==
  IF st = "Charging" /\ p >= hi
    THEN IF cur # NOTIFIED_HIGH
           THEN [request |-> "high", todo |-> "notify", value |-> NOTIFIED_HIGH]
         ELSE [request |-> "none", todo |-> "return", value |-> <<>>]
  ELSE IF st = "Discharging" /\ p <= lo
    THEN IF cur # NOTIFIED_LOW
           THEN [request |-> "low", todo |-> "notify", value |-> NOTIFIED_LOW]
         ELSE [request |-> "none", todo |-> "return", value |-> <<>>]
  ELSE IF lo <= p /\ p <= hi /\ cur # NONE_STATE
    THEN [request |-> "none", todo |-> "clear", value |-> <<>>]
  ELSE [request |-> "none", todo |-> "return", value |-> <<>>]

\* A notification only from the state "none".
DecisionOnlyFromNone(p, st, lo, hi, cur) ==
  IF st = "Charging" /\ p >= hi
    THEN IF cur = NONE_STATE
           THEN [request |-> "high", todo |-> "notify", value |-> NOTIFIED_HIGH]
         ELSE [request |-> "none", todo |-> "return", value |-> <<>>]
  ELSE IF st = "Discharging" /\ p <= lo
    THEN IF cur = NONE_STATE
           THEN [request |-> "low", todo |-> "notify", value |-> NOTIFIED_LOW]
         ELSE [request |-> "none", todo |-> "return", value |-> <<>>]
  ELSE IF lo < p /\ p < hi /\ cur # NONE_STATE
    THEN [request |-> "none", todo |-> "clear", value |-> <<>>]
  ELSE [request |-> "none", todo |-> "return", value |-> <<>>]

\* Lines 324-351 of one_iteration: which notification is requested and what
\* is done to the state file, from the reading, the thresholds and the state
\* read_state returned.
Decision(p, st, lo, hi, cur) ==
  IF st = "Charging" /\ p >= hi
    THEN IF cur # NOTIFIED_HIGH
           THEN [request |-> "high", todo |-> "notify", value |-> NOTIFIED_HIGH]
         ELSE [request |-> "none", todo |-> "return", value |-> <<>>]
  ELSE IF st = "Discharging" /\ p <= lo
    THEN IF cur # NOTIFIED_LOW
           THEN [request |-> "low", todo |-> "notify", value |-> NOTIFIED_LOW]
         ELSE [request |-> "none", todo |-> "return", value |-> <<>>]
  ELSE IF lo < p /\ p < hi /\ cur # NONE_STATE
    THEN [request |-> "none", todo |-> "clear", value |-> <<>>]
  ELSE [request |-> "none", todo |-> "return", value |-> <<>>]

\* ------------------------------------------------------------------ state
VARIABLES
  low, high,        \* cfg LOW, HIGH of the run configuration
  mode,             \* how main() was started
  pc,               \* where the process is; "stopped" when there is none
  RUNNING,          \* the module's global flag
  slept,            \* daemon_loop's sleep counter
  exit,             \* how the last process ended
  stateFile,        \* <STATE_DIR>/state
  tmpFile,          \* <STATE_DIR>/state.tmp
  pidfile,          \* PIDFILE exists
  pct, status,      \* the reading of the cycle
  current_state,    \* what read_state returned in the cycle
  request,          \* the notification the cycle emits: none, high, low
  attempted,        \* channels called in the cycle
  failed,           \* channels that returned False in the cycle
  outcome,          \* the cycle: idle, running, returned, skipped, raised
  \* observers of the run, read by the properties only
  priorFile,        \* the state file as the cycle found it
  clearFailed,      \* clear_state swallowed an exception in the cycle
  repeat,           \* the reading equals the one of the cycle just before
  prevClearFailed,  \* clearFailed of the cycle just before
  nodev,            \* the cycle found no battery device
  highLatch, lowLatch,  \* emitted since the last neutral reading
  highHeld, lowHeld,    \* emitted and persisted, not yet released
  hyst,             \* how much of the hysteresis scenario has been played
  sigInFlight,      \* the flag was cleared while a cycle was in flight
  ticksAfter,       \* sleep ticks that returned since the flag was cleared
  launches,         \* processes started so far
  \* a second instance started on the same state directory
  otherPc,          \* where its single cycle is: off, decide, write, done
  otherRequest,     \* the notification its cycle emits
  emittedFor,       \* the region a dispatch began in and no reading has left since
  forced,           \* the side of a forced run that returned just before this cycle
  \* battery_info applied on its own
  devs,             \* the devices find_battery_paths returned
  result            \* what battery_info returned for them, NoResult before

proc == <<mode, pc, RUNNING, slept, exit>>
files == <<stateFile, tmpFile, pidfile>>
cycle == <<pct, status, current_state, request, attempted, failed, outcome>>
other == <<otherPc, otherRequest>>
agg == <<devs, result>>
observers == <<priorFile, clearFailed, repeat, prevClearFailed, nodev, highLatch, lowLatch, highHeld, lowHeld, hyst, sigInFlight, ticksAfter, launches, other, agg, emittedFor, forced>>
vars == <<low, high, proc, files, cycle, observers>>

\* cfg: the defaults (lines 66-67), an empty neutral band, LOW above HIGH.
Thresholds == {<<20, 80>>, <<50, 51>>, <<80, 20>>}

Modes == {"daemon", "once", "force-high", "force-low"}

\* What a poll of the loop can find under /sys/class/power_supply: devices
\* that expose capacity and status only, the status in the kernel's
\* spelling or in lower case.
PollCapacities == {15, 20, 50, 80, 85}
PollStatuses == {NoStatus, "charging", "Discharging", "Full"}
PollDevice ==
  { Device(None, None, None, None, c, s) : c \in PollCapacities, s \in PollStatuses }
PollDevices ==
  UNION { [1..n -> PollDevice] : n \in 0..MaxPollDevices }

\* The hysteresis scenario of the design (low=20, high=80).
Scenario ==
  << [pct |-> 85, status |-> "Charging"], [pct |-> 85, status |-> "Charging"],
     [pct |-> 50, status |-> "Discharging"], [pct |-> 15, status |-> "Discharging"],
     [pct |-> 15, status |-> "Discharging"], [pct |-> 50, status |-> "Unknown"] >>

Neutral(p) == low < p /\ p < high

Init ==
  /\ \E t \in Thresholds : low = t[1] /\ high = t[2]
  /\ mode = "once" /\ pc = "stopped" /\ RUNNING = TRUE /\ slept = 0 /\ exit = "none"
  /\ stateFile \in StartFiles /\ tmpFile = Absent /\ pidfile = FALSE
  /\ pct = 0 /\ status = "Unknown" /\ current_state = NONE_STATE
  /\ request = "none" /\ attempted = {} /\ failed = {} /\ outcome = "idle"
  /\ priorFile = stateFile /\ clearFailed = FALSE /\ repeat = FALSE /\ nodev = FALSE
  /\ prevClearFailed = FALSE
  /\ highLatch = FALSE /\ lowLatch = FALSE /\ highHeld = FALSE /\ lowHeld = FALSE
  /\ hyst = IF low = 20 /\ high = 80
                /\ read_state(stateFile) \notin {NOTIFIED_HIGH, NOTIFIED_LOW}
              THEN 0 ELSE -1
  /\ sigInFlight = FALSE /\ ticksAfter = 0 /\ launches = 0
  /\ otherPc = "off" /\ otherRequest = "none"
  /\ emittedFor = "none" /\ forced = "none"
  /\ devs = <<>> /\ result = NoResult

\* ---------------------------------------------------------------- actions
\* The scenario observer after a cycle that returned with reading (p, st).
HystAfter(o, cf, p, st) ==
  IF hyst \in 0..(Len(Scenario) - 1) /\ o = "returned" /\ ~cf
       /\ p = Scenario[hyst + 1].pct /\ st = Scenario[hyst + 1].status
    THEN hyst + 1 ELSE -1

\* one_iteration returns (o = "returned") or returns early on a failed
\* battery read (o = "skipped"): main() returns 0 after a single run,
\* daemon_loop goes to its sleep loop.
Return(o, cf, req) ==
  /\ outcome' = o
  /\ clearFailed' = cf
  /\ hyst' = HystAfter(o, cf, pct, status)
  /\ highLatch' = (highLatch \/ req = "high")
  /\ lowLatch' = (lowLatch \/ req = "low")
  /\ IF mode = "daemon"
       THEN pc' = "sleep" /\ slept' = 0 /\ exit' = exit
       ELSE pc' = "stopped" /\ slept' = slept /\ exit' = "ok"
  /\ forced' = IF o = "returned" /\ mode = "force-high" THEN "high"
               ELSE IF o = "returned" /\ mode = "force-low" THEN "low" ELSE "none"
  /\ UNCHANGED <<mode, RUNNING, pidfile, sigInFlight, ticksAfter, launches, other, agg>>

\* An exception leaves one_iteration: nothing catches it but daemon_loop's
\* finally clause, which removes the pidfile; the process dies on it.
Raise ==
  /\ outcome' = "raised"
  /\ hyst' = -1
  /\ highLatch' = (highLatch \/ request = "high")
  /\ lowLatch' = (lowLatch \/ request = "low")
  /\ pc' = "stopped" /\ exit' = "exception"
  /\ pidfile' = IF mode = "daemon" THEN FALSE ELSE pidfile
  /\ forced' = "none"
  /\ UNCHANGED <<mode, RUNNING, slept, clearFailed, sigInFlight, ticksAfter, launches, other, agg>>

\* main(): parse the arguments, load the configuration, run once or loop.
\* daemon_loop first writes the pidfile, ignoring a failure to.
Launch(m, pidOk) ==
  /\ pc = "stopped"
  /\ mode' = m
  /\ RUNNING' = TRUE
  /\ exit' = "none"
  /\ IF m = "daemon"
       THEN pc' = "loop_top" /\ pidfile' = (pidfile \/ pidOk)
       ELSE pc' = "battery" /\ pidfile' = pidfile
  /\ sigInFlight' = FALSE /\ ticksAfter' = 0 /\ launches' = launches + 1
  /\ UNCHANGED <<other, agg, emittedFor, forced>>
  /\ UNCHANGED <<low, high, slept, stateFile, tmpFile, cycle, priorFile, clearFailed,
                 repeat, prevClearFailed, nodev, highLatch, lowLatch, highHeld,
                 lowHeld, hyst>>

\* The first process on this state directory.
Start(m) == exit = "none" /\ Launch(m, TRUE)

\* The value the cycle persists: notified_high or notified_low.
StateValue == Decision(pct, status, low, high, current_state).value

\* A later process on the same state directory, once the one before it has
\* ended.
Restart(m) == exit # "none" /\ launches < MaxLaunches /\ Launch(m, TRUE)

\* What a killed write leaves in the temporary file: nothing yet, the file
\* created and still empty, part of the value, or all of it.
TornWrites == {"untouched", "empty", "partial", "whole"}

\* The process is killed outright (SIGKILL, which lines 295-296 cannot
\* handle): no handler and no finally clause runs, the files stay as they
\* are.  Killed inside write_state before the replace, the temporary file
\* is left as far as it had been written.
Kill(torn) ==
  /\ pc # "stopped"
  /\ pc' = "stopped" /\ exit' = "killed"
  /\ IF pc = "write_tmp"
       THEN tmpFile' = CASE torn = "untouched" -> tmpFile
                         [] torn = "empty" -> TextFile(<<>>)
                         [] torn = "partial" -> TextFile(<<"notified_">>)
                         [] OTHER -> TextFile(StateValue)
       ELSE torn = "untouched" /\ tmpFile' = tmpFile
  /\ highLatch' = (highLatch \/ (request = "high" /\ attempted # {}))
  /\ lowLatch' = (lowLatch \/ (request = "low" /\ attempted # {}))
  /\ forced' = IF outcome = "running" THEN "none" ELSE forced
  /\ UNCHANGED <<low, high, mode, RUNNING, slept, stateFile, pidfile, cycle,
                 priorFile, clearFailed, repeat, prevClearFailed, nodev, highHeld,
                 lowHeld, hyst, sigInFlight, ticksAfter, launches, other, agg, emittedFor>>

\* main() of a second instance, started with --once while the first may be
\* running: nothing on its way to one_iteration opens, tests or locks
\* LOCKFILE (line 34 is the only mention of it) or looks at the pidfile.
OtherStart ==
  /\ otherPc = "off"
  /\ otherPc' = "decide" /\ otherRequest' = "none"
  /\ UNCHANGED <<low, high, proc, files, cycle, priorFile, clearFailed, repeat,
                 prevClearFailed, nodev, highLatch, lowLatch, highHeld, lowHeld,
                 hyst, sigInFlight, ticksAfter, launches, agg, emittedFor, forced>>

\* Its one_iteration up to the dispatch: the batteries are read, the state
\* file is read, the branch is taken; a neutral reading clears the state.
OtherDecide(ds) ==
  /\ otherPc = "decide"
  /\ LET r == battery_info(ds)
         d == Decision(r.pct, r.status, low, high, read_state(stateFile))
     IN  IF r.raised
           THEN otherPc' = "done" /\ UNCHANGED <<otherRequest, stateFile>>
           ELSE /\ otherRequest' = d.request
                /\ otherPc' = IF d.todo = "notify" THEN "write" ELSE "done"
                /\ stateFile' = IF d.todo = "clear" THEN Absent ELSE stateFile
  /\ UNCHANGED <<low, high, proc, tmpFile, pidfile, cycle, priorFile, clearFailed,
                 repeat, prevClearFailed, nodev, highLatch, lowLatch, highHeld,
                 lowHeld, hyst, sigInFlight, ticksAfter, launches, agg, emittedFor, forced>>

\* Its dispatch is over and its write_state replaces the state file.
OtherWrite ==
  /\ otherPc = "write"
  /\ stateFile' = TextFile(IF otherRequest = "high" THEN NOTIFIED_HIGH ELSE NOTIFIED_LOW)
  /\ otherPc' = "done"
  /\ UNCHANGED <<low, high, proc, tmpFile, pidfile, cycle, priorFile, clearFailed,
                 repeat, prevClearFailed, nodev, highLatch, lowLatch, highHeld,
                 lowHeld, hyst, sigInFlight, ticksAfter, launches, otherRequest, agg, emittedFor, forced>>

\* handle_signal: SIGINT or SIGTERM reaches the process.
HandleSignal ==
  /\ pc # "stopped"
  /\ RUNNING
  /\ RUNNING' = FALSE
  /\ sigInFlight' = (outcome = "running") /\ ticksAfter' = 0
  /\ UNCHANGED <<low, high, mode, pc, slept, exit, files, cycle, priorFile, clearFailed,
                 repeat, prevClearFailed, nodev, highLatch, lowLatch, highHeld,
                 lowHeld, hyst, launches, other, agg, emittedFor, forced>>

\* while RUNNING: one_iteration(cfg) ...
LoopTop ==
  /\ pc = "loop_top"
  /\ pc' = IF RUNNING THEN "battery" ELSE "finally"
  /\ UNCHANGED <<low, high, mode, RUNNING, slept, exit, files, cycle, observers>>

\* The sleep loop ignoring the flag: while slept < poll.
SleepTestDeaf ==
  /\ pc = "sleep"
  /\ slept < PollTicks
  /\ pc' = "sleeping"
  /\ UNCHANGED <<low, high, mode, RUNNING, slept, exit, files, cycle, observers>>

\* while RUNNING and slept < poll: the test passes, time.sleep(1) is entered.
SleepTest ==
  /\ pc = "sleep"
  /\ RUNNING /\ slept < PollTicks
  /\ pc' = "sleeping"
  /\ UNCHANGED <<low, high, mode, RUNNING, slept, exit, files, cycle, observers>>

\* time.sleep(1) returns (a signal handled meanwhile does not cut it short:
\* the sleep is resumed for the rest of the second); slept += 1.
SleepTick ==
  /\ pc = "sleeping"
  /\ slept' = slept + 1
  /\ pc' = "sleep"
  /\ ticksAfter' = IF RUNNING THEN ticksAfter ELSE ticksAfter + 1
  /\ UNCHANGED <<low, high, mode, RUNNING, exit, files, cycle, priorFile, clearFailed,
                 repeat, prevClearFailed, nodev, highLatch, lowLatch, highHeld,
                 lowHeld, hyst, sigInFlight, launches, other, agg, emittedFor, forced>>

SleepDone ==
  /\ pc = "sleep"
  /\ ~(RUNNING /\ slept < PollTicks)
  /\ pc' = "loop_top"
  /\ UNCHANGED <<low, high, mode, RUNNING, slept, exit, files, cycle, observers>>

\* finally: remove the pidfile (ignoring a failure), log, return to main.
Finally ==
  /\ pc = "finally"
  /\ pidfile' = FALSE
  /\ pc' = "stopped" /\ exit' = "ok"
  /\ UNCHANGED <<low, high, mode, RUNNING, slept, stateFile, tmpFile, cycle, observers>>

\* The cycle starts: the reading is taken (lines 308-320).
BeginCycle(r, n) ==
  /\ pct' = r.pct /\ status' = r.status
  /\ nodev' = (n = 0)
  /\ current_state' = NONE_STATE
  /\ request' = "none" /\ attempted' = {} /\ failed' = {}
  /\ priorFile' = stateFile
  /\ repeat' = (outcome = "returned" /\ pct = r.pct /\ status = r.status)
  /\ prevClearFailed' = clearFailed
  /\ highHeld' = (highHeld /\ ~Neutral(r.pct))
  /\ lowHeld' = (lowHeld /\ ~Neutral(r.pct))
  /\ emittedFor' = IF emittedFor = "high" /\ r.pct < high THEN "none"
                   ELSE IF emittedFor = "low" /\ r.pct > low THEN "none"
                   ELSE emittedFor
  /\ UNCHANGED <<low, high, stateFile, tmpFile>>

Proceed ==
  /\ outcome' = "running" /\ pc' = "decide"
  /\ highLatch' = (highLatch /\ ~Neutral(pct'))
  /\ lowLatch' = (lowLatch /\ ~Neutral(pct'))
  /\ UNCHANGED <<mode, RUNNING, slept, exit, pidfile, clearFailed, hyst, sigInFlight, ticksAfter, launches, other, agg, forced>>

\* The forced readings with the two thresholds exchanged.
ForcedReadingSwapped ==
  /\ pc = "battery"
  /\ mode \in {"force-high", "force-low"}
  /\ BeginCycle(IF mode = "force-high" THEN [pct |-> low, status |-> "Charging"]
                ELSE [pct |-> high, status |-> "Discharging"], 1)
  /\ Proceed

\* force == "force-high" / "force-low": the reading is synthesised.
ForcedReading ==
  /\ pc = "battery"
  /\ mode \in {"force-high", "force-low"}
  /\ BeginCycle(IF mode = "force-high" THEN [pct |-> high, status |-> "Charging"]
                ELSE [pct |-> low, status |-> "Discharging"], 1)
  /\ Proceed

\* pct, status = battery_info(); an exception is logged and the cycle ends.
ReadBattery(ds) ==
  /\ pc = "battery"
  /\ mode \in {"daemon", "once"}
  /\ LET r == battery_info(ds)
     IN  IF r.raised
           THEN /\ BeginCycle([pct |-> pct, status |-> status], Len(ds))
                /\ Return("skipped", FALSE, "none")
           ELSE /\ BeginCycle(r, Len(ds))
                /\ Proceed

\* current_state = read_state(state_file), then the branch of lines 324-351
\* is taken up to its first side effect.
Decide ==
  /\ pc = "decide"
  /\ current_state' = read_state(stateFile)
  /\ LET d == Decision(pct, status, low, high, current_state')
     IN  /\ request' = d.request
         /\ highHeld' = (highHeld /\ d.request # "low")
         /\ lowHeld' = (lowHeld /\ d.request # "high")
         /\ CASE d.todo = "notify" ->
                   /\ pc' = "send"
                   /\ UNCHANGED <<mode, RUNNING, slept, exit, pidfile, outcome,
                                  clearFailed, hyst, highLatch, lowLatch, sigInFlight, ticksAfter, launches, other, agg, forced>>
              [] d.todo = "clear" ->
                   /\ pc' = "clear"
                   /\ UNCHANGED <<mode, RUNNING, slept, exit, pidfile, outcome,
                                  clearFailed, hyst, highLatch, lowLatch, sigInFlight, ticksAfter, launches, other, agg, forced>>
              [] OTHER -> Return("returned", FALSE, d.request)
  /\ UNCHANGED <<low, high, stateFile, tmpFile, pct, status, attempted, failed,
                 priorFile, repeat, prevClearFailed, nodev>>
  /\ UNCHANGED emittedFor

\* The three calls chained with `and`: a channel that returns False ends
\* the dispatch.
CalledShortCircuit(ch, ok, next) ==
  /\ emittedFor' = request
  /\ attempted' = attempted \cup {ch}
  /\ failed' = IF ok THEN failed ELSE failed \cup {ch}
  /\ pc' = IF ok THEN next ELSE "write_tmp"
  /\ UNCHANGED <<low, high, mode, RUNNING, slept, exit, files, pct, status,
                 current_state, request, outcome, priorFile, clearFailed,
                 repeat, prevClearFailed, nodev, highLatch, lowLatch, highHeld, lowHeld,
                 hyst, sigInFlight, ticksAfter, launches, other, agg, forced>>

\* Lines 327-329 and 337-339: the channel is called, its result dropped.
Called(ch, ok, next) ==
  /\ emittedFor' = request
  /\ attempted' = attempted \cup {ch}
  /\ failed' = IF ok THEN failed ELSE failed \cup {ch}
  /\ pc' = next
  /\ UNCHANGED <<low, high, mode, RUNNING, slept, exit, files, pct, status,
                 current_state, request, outcome, priorFile, clearFailed,
                 repeat, prevClearFailed, nodev, highLatch, lowLatch, highHeld, lowHeld,
                 hyst, sigInFlight, ticksAfter, launches, other, agg, forced>>

NotifySend(o) == pc = "send" /\ Called("popup", notify_send(o), "sound")

NotifySound(o) == pc = "sound" /\ Called("sound", notify_sound(o), "telegram")

NotifyTelegram(token, chat, o) ==
  pc = "telegram" /\ Called("telegram", notify_telegram(token, chat, o), "write_tmp")

\* write_state writing the state file in place and closing it where the
\* replace was: open(path, "w") truncates the file before the value is in it.
WriteInPlace(res) ==
  /\ pc = "write_tmp"
  /\ CASE res = "ok" ->
            /\ stateFile' = TextFile(<<>>)
            /\ tmpFile' = TextFile(StateValue)
            /\ pc' = "replace"
            /\ UNCHANGED <<mode, RUNNING, slept, exit, pidfile, outcome, clearFailed,
                           hyst, highLatch, lowLatch, sigInFlight, ticksAfter, launches, other, agg, forced>>
       [] OTHER -> stateFile' = TextFile(<<>>) /\ tmpFile' = tmpFile /\ Raise
  /\ UNCHANGED <<low, high, pct, status, current_state, request,
                 attempted, failed, priorFile, repeat, prevClearFailed, nodev, highHeld, lowHeld>>
  /\ UNCHANGED emittedFor

\* write_state, up to the close of the temporary file: makedirs, open(tmp,
\* "w") and write can each raise; a failed write leaves an empty tmp behind.
WriteTmp(res) ==
  /\ pc = "write_tmp"
  /\ CASE res = "ok" ->
            /\ tmpFile' = TextFile(StateValue)
            /\ pc' = "replace"
            /\ UNCHANGED <<mode, RUNNING, slept, exit, pidfile, outcome, clearFailed,
                           hyst, highLatch, lowLatch, sigInFlight, ticksAfter, launches, other, agg, forced>>
       [] res = "open_failed" -> tmpFile' = tmpFile /\ Raise
       [] OTHER -> tmpFile' = TextFile(<<>>) /\ Raise
  /\ UNCHANGED <<low, high, stateFile, pct, status, current_state, request,
                 attempted, failed, priorFile, repeat, prevClearFailed, nodev, highHeld, lowHeld>>
  /\ UNCHANGED emittedFor

\* os.replace(tmp, path): atomic, or it raises and changes nothing.
Replace(ok) ==
  /\ pc = "replace"
  /\ IF ok
       THEN /\ stateFile' = tmpFile /\ tmpFile' = Absent
            /\ highHeld' = (highHeld \/ request = "high")
            /\ lowHeld' = (lowHeld \/ request = "low")
            /\ Return("returned", FALSE, request)
       ELSE /\ UNCHANGED <<stateFile, tmpFile, highHeld, lowHeld>>
            /\ Raise
  /\ UNCHANGED <<low, high, pct, status, current_state, request, attempted, failed,
                 priorFile, repeat, prevClearFailed, nodev>>
  /\ UNCHANGED emittedFor

\* The state reset by writing the token "none" over the file.
ClearByWritingNone(ok) ==
  /\ pc = "clear"
  /\ stateFile' = IF ok THEN TextFile(NONE_STATE) ELSE stateFile
  /\ Return("returned", ~ok, request)
  /\ UNCHANGED <<low, high, tmpFile, pct, status, current_state, request, attempted,
                 failed, priorFile, repeat, prevClearFailed, nodev, highHeld, lowHeld>>
  /\ UNCHANGED emittedFor

\* clear_state: os.remove, any exception swallowed.
ClearState(ok) ==
  /\ pc = "clear"
  /\ stateFile' = IF ok THEN Absent ELSE stateFile
  /\ Return("returned", ~ok, request)
  /\ UNCHANGED <<low, high, tmpFile, pct, status, current_state, request, attempted,
                 failed, priorFile, repeat, prevClearFailed, nodev, highHeld, lowHeld>>
  /\ UNCHANGED emittedFor

Next ==
  \/ \E m \in Modes : Start(m)
  \/ HandleSignal
  \/ LoopTop
  \/ SleepTest
  \/ SleepTick
  \/ SleepDone
  \/ Finally
  \/ ForcedReading
  \/ \E ds \in PollDevices : ReadBattery(ds)
  \/ Decide
  \/ \E o \in SendOutcomes : NotifySend(o)
  \/ \E o \in SoundOutcomes : NotifySound(o)
  \/ \E token \in {"", "T"}, chat \in {"", "C"}, o \in TelegramOutcomes :
       NotifyTelegram(token, chat, o)
  \/ \E res \in {"ok", "open_failed", "write_failed"} : WriteTmp(res)
  \/ \E ok \in BOOLEAN : Replace(ok)
  \/ \E ok \in BOOLEAN : ClearState(ok)

Spec == Init /\ [][Next]_vars

\* What a poll finds when at most one battery is plugged.
CancelPolls == UNION { [1..n -> PollDevice] : n \in {0, 1} }

\* The steps of the process itself: whatever main() has been started as, it
\* keeps being scheduled until it returns or dies.
Step ==
  \/ LoopTop
  \/ SleepTest
  \/ SleepTick
  \/ SleepDone
  \/ Finally
  \/ ForcedReading
  \/ \E ds \in CancelPolls : ReadBattery(ds)
  \/ Decide
  \/ \E o \in SendOutcomes : NotifySend(o)
  \/ \E o \in SoundOutcomes : NotifySound(o)
  \/ \E token \in {"", "T"}, chat \in {"", "C"}, o \in TelegramOutcomes :
       NotifyTelegram(token, chat, o)
  \/ \E res \in {"ok", "open_failed", "write_failed"} : WriteTmp(res)
  \/ \E ok \in BOOLEAN : Replace(ok)
  \/ \E ok \in BOOLEAN : ClearState(ok)

CancelNext ==
  \/ \E m \in Modes : Start(m)
  \/ HandleSignal
  \/ Step

\* The runs in which the process is not starved of the processor, from the
\* default thresholds and a state file that is missing or holds a
\* notification (cancellation depends on neither).
InitCancel ==
  /\ Init
  /\ low = 20 /\ high = 80
  /\ stateFile \in {Absent, TextFile(NOTIFIED_HIGH)}

CancelSpec == InitCancel /\ [][CancelNext]_vars /\ WF_vars(Step)

\* The runs of up to MaxLaunches processes, one after the other, each of
\* which may be killed at any point.
CrashNext ==
  \/ Step
  \/ HandleSignal
  \/ \E m \in Modes : Start(m)
  \/ \E m \in Modes : Restart(m)
  \/ \E torn \in TornWrites : Kill(torn)

CrashSpec == InitCancel /\ [][CrashNext]_vars

\* The same runs for each pair of thresholds with LOW < HIGH, from a state
\* directory that holds no state file yet.
InitAbsent == Init /\ low < high /\ stateFile = Absent

AbsentSpec == InitAbsent /\ [][CrashNext]_vars

\* Two instances on one state directory: the first as in CancelNext, the
\* second running single cycles beside it.
TwoNext ==
  \/ \E m \in Modes : Start(m)
  \/ HandleSignal
  \/ Step
  \/ OtherStart
  \/ \E ds \in CancelPolls : OtherDecide(ds)
  \/ OtherWrite

TwoSpec == InitCancel /\ [][TwoNext]_vars

\* battery_info on its own: the devices are drawn, then the function is
\* applied to them once.
AggInit ==
  /\ low = 20 /\ high = 80
  /\ mode = "once" /\ pc = "stopped" /\ RUNNING = TRUE /\ slept = 0 /\ exit = "none"
  /\ stateFile = Absent /\ tmpFile = Absent /\ pidfile = FALSE
  /\ pct = 0 /\ status = "Unknown" /\ current_state = NONE_STATE
  /\ request = "none" /\ attempted = {} /\ failed = {} /\ outcome = "idle"
  /\ priorFile = Absent /\ clearFailed = FALSE /\ repeat = FALSE /\ nodev = FALSE
  /\ prevClearFailed = FALSE
  /\ highLatch = FALSE /\ lowLatch = FALSE /\ highHeld = FALSE /\ lowHeld = FALSE
  /\ hyst = 0
  /\ sigInFlight = FALSE /\ ticksAfter = 0 /\ launches = 0
  /\ otherPc = "off" /\ otherRequest = "none"
  /\ emittedFor = "none" /\ forced = "none"
  /\ devs \in AggInputs /\ result = NoResult

Aggregate ==
  /\ result = NoResult
  /\ result' = battery_info(devs)
  /\ UNCHANGED <<low, high, proc, files, cycle, priorFile, clearFailed, repeat,
                 prevClearFailed, nodev, highLatch, lowLatch, highHeld, lowHeld,
                 hyst, sigInFlight, ticksAfter, launches, other, devs, emittedFor, forced>>

AggSpec == AggInit /\ [][Aggregate]_vars

\* ------------------------------------------------------------ properties
\* The NotificationState a state file stands for.
StateOf(f) ==
  IF read_state(f) = NOTIFIED_HIGH THEN "NotifiedHigh"
  ELSE IF read_state(f) = NOTIFIED_LOW THEN "NotifiedLow"
  ELSE "None"

Notified(req) == IF req = "high" THEN "NotifiedHigh" ELSE "NotifiedLow"

HighTrigger == status = "Charging" /\ pct >= high
LowTrigger == status = "Discharging" /\ pct <= low

\* The cycle has taken its decision: request is the one of this cycle.
Decided == outcome \in {"returned", "raised"} \/ (outcome = "running" /\ pc # "decide")

\* C1: with LOW < HIGH, in a cycle whose reading is Charging at or above HIGH
\* a high notification is emitted iff the state file the cycle found does not
\* stand for NotifiedHigh, and once the cycle has returned the state file
\* stands for NotifiedHigh; likewise Discharging at or below LOW, low
\* notification, NotifiedLow.
C1_EmissionRule ==
  (low < high /\ Decided) =>
    /\ HighTrigger =>
         /\ request = "high" <=> StateOf(priorFile) # "NotifiedHigh"
         /\ outcome = "returned" => StateOf(stateFile) = "NotifiedHigh"
    /\ LowTrigger =>
         /\ request = "low" <=> StateOf(priorFile) # "NotifiedLow"
         /\ outcome = "returned" => StateOf(stateFile) = "NotifiedLow"

\* C1 witness: a reading exactly at HIGH, found in state NotifiedLow, has
\* notified and left NotifiedHigh.
C1_Witness ==
  /\ low < high /\ outcome = "returned" /\ HighTrigger /\ pct = high
  /\ StateOf(priorFile) = "NotifiedLow" /\ request = "high"
  /\ StateOf(stateFile) = "NotifiedHigh"

\* C2: a cycle whose reading equals the reading of the cycle just before it
\* emits nothing, ends with no exception and, unless that first cycle's
\* removal of the state file had failed, leaves the state file exactly as
\* the first cycle left it.
C2_Idempotent ==
  (repeat /\ Decided) =>
    /\ request = "none"
    /\ attempted = {}
    /\ outcome # "raised"
    /\ ~prevClearFailed => stateFile = priorFile

\* C2 witness: the second of two equal threshold readings has returned, the
\* first having notified.
C2_Witness ==
  /\ repeat /\ outcome = "returned" /\ HighTrigger /\ highLatch
  /\ request = "none" /\ StateOf(stateFile) = "NotifiedHigh"

ScenarioActions == <<"high", "none", "none", "low", "none", "none">>
ScenarioStates ==
  <<"NotifiedHigh", "NotifiedHigh", "None", "NotifiedLow", "NotifiedLow", "None">>

\* C3: with low=20, high=80 and no notification state to start with, the
\* readings 85 Charging, 85 Charging, 50 Discharging, 15 Discharging,
\* 15 Discharging, 50 Unknown, each cycle returning with its state operation
\* done, give the notifications high, none, none, low, none, none and the
\* states NotifiedHigh, NotifiedHigh, None, NotifiedLow, NotifiedLow, None.
C3_HysteresisTrace ==
  \A k \in 1..Len(Scenario) :
    (hyst = k /\ outcome = "returned") =>
      /\ request = ScenarioActions[k]
      /\ StateOf(stateFile) = ScenarioStates[k]

\* C3 witness: the whole scenario has been played.
C3_Witness == hyst = Len(Scenario) /\ outcome = "returned" /\ low = 20 /\ high = 80

C5_NeutralClears ==
  (low < high /\ Decided /\ Neutral(pct)) =>
    /\ request = "none"
    /\ attempted = {}
    /\ (outcome = "returned" /\ ~clearFailed) => StateOf(stateFile) = "None"

\* C5 witness: a neutral reading found NotifiedHigh and removed the file.
C5_Witness ==
  /\ low < high /\ Neutral(pct) /\ outcome = "returned" /\ ~clearFailed
  /\ StateOf(priorFile) = "NotifiedHigh" /\ stateFile = Absent

\* C6: with LOW < HIGH, a cycle whose reading is outside the neutral band and
\* matches neither trigger emits nothing and leaves the state file as it was.
C6_NonTriggerFrame ==
  (low < high /\ Decided /\ ~Neutral(pct) /\ ~HighTrigger /\ ~LowTrigger) =>
    /\ request = "none"
    /\ attempted = {}
    /\ stateFile = priorFile
    /\ outcome = "returned"

\* C6 witness: a reading exactly at HIGH that is not Charging left
\* NotifiedHigh in place.
C6_Witness ==
  /\ low < high /\ outcome = "returned" /\ pct = high /\ status = "Full"
  /\ StateOf(priorFile) = "NotifiedHigh" /\ stateFile = priorFile

\* C7 as stated: a failure to persist the notification state is caught, the
\* cycle returns normally and the process lives on: no cycle ends with an
\* exception and no process dies of one.
C7_WriteFailureCaught == outcome # "raised" /\ exit # "exception"

\* C8: for every condition of the state file that does not stand for
\* NotifiedHigh or NotifiedLow (absent, unreadable, empty, foreign content),
\* the cycle emits what it emits from state None (the notification of the
\* trigger the reading matches, if any) and, once returned, leaves what it
\* leaves from None (that trigger's Notified state, else None); reading the
\* file ends no cycle with an exception.
C8_CorruptStateIsNone ==
  (Decided /\ StateOf(priorFile) = "None") =>
    /\ request = (IF HighTrigger THEN "high" ELSE IF LowTrigger THEN "low" ELSE "none")
    /\ outcome = "returned" =>
         StateOf(stateFile) = (IF request = "none" THEN "None" ELSE Notified(request))
    /\ outcome = "raised" => request # "none"

\* C8 witness: a high threshold reading found foreign content in the state
\* file, notified and left NotifiedHigh.
C8_Witness ==
  /\ priorFile = TextFile(<<"junk">>) /\ outcome = "returned" /\ HighTrigger
  /\ request = "high" /\ StateOf(stateFile) = "NotifiedHigh"

\* C9: a cycle that finds no battery device is skipped: battery_info raises,
\* nothing is emitted, no channel is called, the state file is untouched, no
\* exception leaves the cycle, and the daemon loop goes on to its sleep and
\* the next cycle.
C9_NoBatterySkipsCycle ==
  nodev =>
    /\ outcome = "skipped"
    /\ request = "none" /\ attempted = {}
    /\ stateFile = priorFile
    /\ exit # "exception"
    /\ (mode = "daemon" /\ RUNNING) => pc \in {"sleep", "sleeping", "loop_top", "battery"}

\* C9 witness: in a daemon that had notified before, a poll found no device
\* and the loop is about to read the batteries again, the state file as it was.
C9_Witness ==
  /\ nodev /\ outcome = "skipped" /\ mode = "daemon" /\ RUNNING /\ pc = "battery"
  /\ StateOf(stateFile) = "NotifiedHigh" /\ highLatch

\* C10: when a notification is due, the popup, the sound and the remote
\* message are all called whatever each returns; the state write is reached
\* only after all three, an exception leaves the cycle only after all three,
\* and a cycle that returns has left the Notified state of its notification.
C10_DispatchIsolated ==
  /\ pc \in {"write_tmp", "replace"} => attempted = Channels
  /\ (Decided /\ request # "none" /\ outcome \in {"returned", "raised"}) =>
       attempted = Channels
  /\ (Decided /\ request # "none" /\ outcome = "returned") =>
       StateOf(stateFile) = Notified(request)

\* C10 witness: all three channels failed and the state is NotifiedLow.
C10_Witness ==
  /\ outcome = "returned" /\ request = "low" /\ failed = Channels
  /\ attempted = Channels /\ StateOf(stateFile) = "NotifiedLow"

\* C11. Cooperative cancellation.  Once handle_signal has cleared RUNNING:
\* the test of `while RUNNING` never lets a new cycle in (a cycle starts
\* where the loop body is entered); a cycle that was in flight is not cut
\* short: the process never leaves the loop with the cycle half way, and
\* a cycle that returns after requesting a notification has its state
\* written; no further time.sleep(1) is entered, so at most the tick that
\* was in progress returns; and the process then comes to its end.
C11_NoNewCycle ==
  [][(~RUNNING /\ ~RUNNING') =>
       /\ (pc' = "battery" => pc = "battery")
       /\ (pc' = "sleeping" => pc = "sleeping")]_vars

C11_InFlightCompletes ==
  /\ (pc \in {"sleep", "sleeping", "loop_top", "finally"}) => outcome # "running"
  /\ (pc = "stopped" /\ exit = "ok") => outcome # "running"
  /\ (sigInFlight /\ outcome = "returned" /\ request # "none")
       => StateOf(stateFile) = Notified(request)
  /\ ticksAfter <= 1

C11_Cancellation ==
  /\ C11_NoNewCycle
  /\ []C11_InFlightCompletes
  /\ (~RUNNING ~> pc = "stopped")

\* The flag was cleared while a daemon cycle that notifies was in flight;
\* the cycle wrote its state and the loop ended through its finally clause.
C11_Witness ==
  /\ mode = "daemon" /\ pc = "stopped" /\ exit = "ok" /\ ~RUNNING
  /\ sigInFlight /\ request = "high" /\ outcome = "returned"
  /\ stateFile = TextFile(NOTIFIED_HIGH)

\* A process was killed, or died of an exception, in a cycle that had a
\* notification to persist; a later process may have been started but has
\* not read the state file yet.
DiedPersisting ==
  /\ request # "none"
  /\ \/ pc = "stopped" /\ exit \in {"killed", "exception"}
     \/ pc \in {"loop_top", "battery"} /\ outcome \in {"running", "raised"}
     \/ pc \in {"loop_top", "battery"} /\ outcome = "returned" /\ launches > 1

\* C12. Atomic state persistence.  Whatever step of a cycle that persists
\* a notification the process dies at (before, while or after the temporary
\* file is written, before or after os.replace), the state file a later
\* read_state opens is the file the cycle found, untouched, or holds the
\* whole new value; what is torn is only ever the temporary file.
C12_AtomicPersistence ==
  DiedPersisting =>
    /\ stateFile \in {priorFile, TextFile(StateValue)}
    /\ read_state(stateFile) \in {read_state(priorFile), StateValue}

\* Killed inside write_state with the temporary file half written, then
\* restarted: the state file is still missing, as the cycle found it.
C12_Witness ==
  /\ DiedPersisting /\ launches = 2 /\ pc = "battery"
  /\ tmpFile = TextFile(<<"notified_">>)
  /\ priorFile = Absent /\ stateFile = Absent

\* C13. Starting with no state file, through any sequence of cycles of
\* any mode (daemon polls, single runs, forced runs; processes ending,
\* failing or killed, and started again) the state file is missing or
\* holds exactly notified_high or exactly notified_low.
C13_PersistedStateValues ==
  stateFile \in {Absent, TextFile(NOTIFIED_HIGH), TextFile(NOTIFIED_LOW)}

\* A forced low run after an earlier process had persisted notified_high.
C13_Witness ==
  /\ launches = 2 /\ mode = "force-low" /\ outcome = "returned"
  /\ priorFile = TextFile(NOTIFIED_HIGH) /\ stateFile = TextFile(NOTIFIED_LOW)

\* C14. Single-instance execution: two instances on the same state
\* directory are never inside a cycle at once, so they never both find the
\* state not yet notified and both emit the notification of one excursion.
C14_SingleInstance ==
  /\ ~(outcome = "running" /\ pc # "stopped" /\ otherPc \in {"decide", "write"})
  /\ ~(/\ outcome = "running" /\ pc # "stopped" /\ otherPc = "write"
       /\ request # "none" /\ otherRequest = request)

\* battery_info has returned for a non-empty list of devices.
Aggregated == devs # <<>> /\ result # NoResult /\ ~result.raised

\* A DeviceReading's energyNow and energyFull: the energy file, the charge
\* file when there is no energy file.
EnergyNow(d) == IF d.energy_now # None THEN d.energy_now ELSE d.charge_now
EnergyFull(d) == IF d.energy_full # None THEN d.energy_full ELSE d.charge_full

\* C15. For every non-empty list of devices of which at least one has
\* energyFull > 0 (energyNow above energyFull included), the percentage
\* battery_info returns lies in 0..100.
C15_PercentRange ==
  (Aggregated /\ \E i \in 1..Len(devs) : EnergyFull(devs[i]) > 0)
    => result.pct \in 0..100

\* The per-device percentage (times its weight) and weight of the design:
\* energyNow present, be it 0, and energyFull non-zero: 100*energyNow/
\* energyFull weighted by energyFull; else capacityPercent weighted by 1;
\* else 0 weighted by 1.
WeightedShare(d) ==
  IF EnergyNow(d) # None /\ EnergyFull(d) # None /\ EnergyFull(d) # 0
    THEN [energy |-> 100 * EnergyNow(d), weight |-> EnergyFull(d)]
  ELSE IF d.capacity # None THEN [energy |-> d.capacity, weight |-> 1]
  ELSE [energy |-> 0, weight |-> 1]

RECURSIVE SumShares(_, _)
SumShares(ds, field) ==
  IF ds = <<>> THEN 0 ELSE WeightedShare(Head(ds))[field] + SumShares(Tail(ds), field)

\* C16. The percentage battery_info returns is the capacity-weighted
\* average round(sum(pct*weight)/sum(weight)) of the per-device shares
\* above, a device whose energyNow is 0 counting with pct 0 and weight
\* energyFull.
C16_WeightedAggregation ==
  Aggregated =>
    result.pct = RoundHalfEven(SumShares(devs, "energy"), SumShares(devs, "weight"))

\* The spellings of the three status words among the devices' statuses.
Reported(spellings) == \E i \in 1..Len(devs) : devs[i].status \in spellings

\* C17. Status priority: Charging if any device reports it in whatever
\* case, else Discharging if any does, else Full if any does; whatever the
\* order of the devices and whatever their measurements.
C17_StatusPriority ==
  Aggregated =>
    /\ Reported({"Charging", "CHARGING", "charging"}) => result.status = "Charging"
    /\ (/\ ~Reported({"Charging", "CHARGING", "charging"})
        /\ Reported({"Discharging", "discharging"})) => result.status = "Discharging"
    /\ (/\ ~Reported({"Charging", "CHARGING", "charging"})
        /\ ~Reported({"Discharging", "discharging"})
        /\ Reported({"Full"})) => result.status = "Full"

\* A discharging device listed before one that reports "charging" in lower
\* case: the overall status is Charging.
C17_Witness ==
  /\ Aggregated /\ Len(devs) = 2
  /\ devs[1].status = "Discharging" /\ devs[2].status = "charging"
  /\ result.status = "Charging"

\* C18. The status battery_info returns is one of the four values its
\* docstring lists, whatever the devices' status files hold.
C18_StatusEnum ==
  Aggregated => result.status \in {"Charging", "Discharging", "Full", "Unknown"}

\* C19. At most one notification per excursion, across processes: a cycle
\* never starts a dispatch for a threshold region in which a dispatch had
\* begun before, in this process or in one that ended, failed or was
\* killed, and which no reading has left since.
C19_OncePerExcursion ==
  ~(pc = "send" /\ attempted = {} /\ request # "none" /\ emittedFor = request)

\* The side a forced mode tests.
ForcedSide == IF mode = "force-high" THEN "high" ELSE "low"

\* A forced run has returned.
ForcedReturned ==
  mode \in {"force-high", "force-low"} /\ pc = "stopped" /\ exit = "ok"

\* C20. The forced modes run the normal cycle on the real state file with
\* the reading (HIGH, Charging) or (LOW, Discharging): a forced run that
\* returns has emitted exactly when the state it found was not already the
\* Notified value of its side, and leaves that value persisted ...
C20_ForcedState ==
  ForcedReturned =>
    /\ outcome = "returned"
    /\ pct = (IF mode = "force-high" THEN high ELSE low)
    /\ status = (IF mode = "force-high" THEN "Charging" ELSE "Discharging")
    /\ (request = ForcedSide) = (StateOf(priorFile) # Notified(ForcedSide))
    /\ request \in {"none", ForcedSide}
    /\ (request = "none") = (attempted = {})
    /\ StateOf(stateFile) = Notified(ForcedSide)

\* ... and a real reading of the same side, polled by the next process
\* right after it, is suppressed.
C20_NextSuppressed ==
  [][(/\ pc = "decide" /\ mode \in {"daemon", "once"}
      /\ \/ forced = "high" /\ status = "Charging" /\ pct >= high
         \/ forced = "low" /\ status = "Discharging" /\ pct <= low)
     => (request' = "none" /\ pc' \notin {"send", "clear"} /\ stateFile' = stateFile)]_vars

C20_ForcedSharesState == []C20_ForcedState /\ C20_NextSuppressed

\* A forced high run emitted and persisted; the next process, a real
\* single run, has just read 85% Charging.
C20_Witness ==
  /\ forced = "high" /\ emittedFor = "high" /\ launches = 2
  /\ mode = "once" /\ pc = "decide" /\ pct = 85 /\ status = "Charging"
  /\ stateFile = TextFile(NOTIFIED_HIGH)

====
